---- MODULE Spec2Model ----
(***************************************************************************)
(* Public verifiable secret sharing (share/pvss/pvss.go) over a prime-     *)
(* order group.  A group element is represented by its discrete logarithm  *)
(* with respect to the base point G, so the group of order q is Z_q with   *)
(* G = 1, point addition is addition mod q and scalar multiplication is    *)
(* multiplication mod q.                                                   *)
(***************************************************************************)
EXTENDS Integers, Sequences, FiniteSets, TLC

VARIABLES
    q,          \* order of the group (suite)
    xs,         \* private keys x_i of the recipients; X_i = x_i*G
    t,          \* threshold
    secret,     \* the dealer's secret scalar
    seed,       \* state of random.Stream for the proof commitments
    turn,       \* 0 before the issuance, then the next recipient to decrypt
    pubPoly,    \* commitment polynomial published by the dealer
    issued,     \* encrypted shares as returned by EncShares
    E,          \* encrypted shares as they reach recipients and verifiers
    D,          \* decrypted shares published so far, by recipient position
    tampered,   \* positions whose encrypted share was changed in transit
    cheat,      \* positions decrypted with a private key other than x_i
    drawn,      \* coefficients the last EncShares drew from random.Stream
    prev,       \* the previous issuance of the same secret, if any
    ret,        \* arguments and results of the last call
    recv,       \* a Secret or Point that is marshalled or unmarshalled into
    call        \* arguments and results of the last call of its marshal methods

vars == <<q, xs, t, secret, seed, turn, pubPoly, issued, E, D, tampered, cheat, drawn, prev,
          ret, recv, call>>

----------------------------------------------------------------------------
(* Bounds of the model *)

MaxOrder == 5       \* group orders are the primes in 3..MaxOrder
MaxN == 2           \* at most MaxN recipients
MaxKey == 2         \* honest private keys are drawn from 1..MaxKey
MaxCoef == 1        \* random polynomial coefficients are drawn from 0..MaxCoef
MaxSel == 2         \* a batch call is given at most MaxSel entries
MaxName == 2        \* the names of the registered suites have 1..MaxName characters
MaxData == 5        \* UnmarshalBinary is given at most MaxData bytes

Min(a, b) == IF a < b THEN a ELSE b

IsPrime(p) == p > 1 /\ \A d \in 2..(p - 1) : p % d # 0

Orders == {p \in 3..MaxOrder : IsPrime(p)}

----------------------------------------------------------------------------
(* abstract.Scalar and abstract.Point of a suite of order m *)

Scalars(m) == 0..(m - 1)

ScalarAdd(m, a, b) == (a + b) % m

ScalarSub(m, a, b) == (a - b + m) % m

ScalarMul(m, a, b) == (a * b) % m

RECURSIVE ScalarPow(_, _, _)
ScalarPow(m, a, e) == IF e = 0 THEN 1 % m ELSE (a * ScalarPow(m, a, e - 1)) % m

\* modular inverse, a^(m-2) mod m; Inv(0) = 0
ScalarInv(m, a) == ScalarPow(m, a, m - 2)

ScalarDiv(m, a, b) == ScalarMul(m, a, ScalarInv(m, b))

PointNull == 0

PointBase == 1

PointAdd(m, a, b) == (a + b) % m

PointMul(m, p, s) == (p * s) % m

\* the second generator H = 2*G used for the commitments
BaseH(m) == PointMul(m, PointBase, 2)

----------------------------------------------------------------------------
(* share: secret sharing polynomials *)

\* NewPriPoly: coefficients, constant term first
NewPriPoly(s, rnd) == <<s>> \o rnd

RECURSIVE PriEvalFrom(_, _, _, _)
PriEvalFrom(m, coeffs, i, k) ==
    IF k > Len(coeffs) THEN 0
    ELSE ScalarAdd(m, coeffs[k], ScalarMul(m, i % m, PriEvalFrom(m, coeffs, i, k + 1)))

\* PriPoly.Eval(i): the private share (i, p(i))
PriEval(m, coeffs, i) == [I |-> i, V |-> PriEvalFrom(m, coeffs, i, 1)]

\* PriPoly.Shares(n)
PriShares(m, coeffs, n) == [i \in 1..n |-> PriEval(m, coeffs, i)]

\* PriPoly.Commit(B): the coefficients committed to base B
Commit(m, coeffs, B) == [k \in 1..Len(coeffs) |-> PointMul(m, B, coeffs[k])]

RECURSIVE PubEvalFrom(_, _, _, _)
PubEvalFrom(m, commits, i, k) ==
    IF k > Len(commits) THEN PointNull
    ELSE PointAdd(m, commits[k], PointMul(m, PubEvalFrom(m, commits, i, k + 1), i % m))

\* PubPoly.Eval(i): the public share (i, p(i)*B)
PubEval(m, commits, i) == [I |-> i, V |-> PubEvalFrom(m, commits, i, 1)]

\* Lagrange coefficient at 0 of the i-th of the shares sh
RECURSIVE LagrangeNum(_, _, _, _)
LagrangeNum(m, sh, i, j) ==
    IF j > Len(sh) THEN 1
    ELSE IF j = i THEN LagrangeNum(m, sh, i, j + 1)
    ELSE ScalarMul(m, sh[j].I % m, LagrangeNum(m, sh, i, j + 1))

RECURSIVE LagrangeDen(_, _, _, _)
LagrangeDen(m, sh, i, j) ==
    IF j > Len(sh) THEN 1
    ELSE IF j = i THEN LagrangeDen(m, sh, i, j + 1)
    ELSE ScalarMul(m, ScalarSub(m, sh[j].I % m, sh[i].I % m), LagrangeDen(m, sh, i, j + 1))

RECURSIVE LagrangeSum(_, _, _)
LagrangeSum(m, sh, i) ==
    IF i > Len(sh) THEN PointNull
    ELSE PointAdd(m,
            PointMul(m, sh[i].V,
                ScalarDiv(m, LagrangeNum(m, sh, i, 1), LagrangeDen(m, sh, i, 1))),
            LagrangeSum(m, sh, i + 1))

NoPoint == -1

\* share.RecoverCommit: interpolation at 0 over threshold-many public shares
RecoverCommit(m, shares, th, n) ==
    IF Len(shares) < th
    THEN [point |-> NoPoint, err |-> "errorNotEnoughShares"]
    ELSE [point |-> LagrangeSum(m, SubSeq(shares, 1, th), 1), err |-> "nil"]

----------------------------------------------------------------------------
(* proof: discrete-logarithm equality proofs *)

\* Fiat-Shamir challenge; a random oracle with range 1..m-1
Challenge(m, xG, xH, vG, vH) == 1 + ((xG + 2 * xH + 3 * vG + 4 * vH) % (m - 1))

\* NewDLEQProof(suite, B1, B2, x) with commitment randomness v
NewDLEQProof(m, B1, B2, x, v) ==
    LET xG == PointMul(m, B1, x)
        xH == PointMul(m, B2, x)
        vG == PointMul(m, B1, v)
        vH == PointMul(m, B2, v)
        c  == Challenge(m, xG, xH, vG, vH)
    IN  [proof |-> [C |-> c, R |-> ScalarSub(m, v, ScalarMul(m, c, x)), VG |-> vG, VH |-> vH],
         xG |-> xG, xH |-> xH]

\* DLEQProof.Verify(suite, B1, B2, xG, xH)
DLEQVerify(m, P, B1, B2, xG, xH) ==
    /\ P.VG = PointAdd(m, PointMul(m, B1, P.R), PointMul(m, xG, P.C))
    /\ P.VH = PointAdd(m, PointMul(m, B2, P.R), PointMul(m, xH, P.C))

\* the k-th draw of the proof randomness of a stream seeded with sd
Pick(m, sd, k) == (sd + k) % m

----------------------------------------------------------------------------
(* share/pvss *)

NilProof == [C |-> 0, R |-> 0, VG |-> NoPoint, VH |-> NoPoint]

NilShare == [S |-> [I |-> 0, V |-> NoPoint], P |-> NilProof]

\* EncShares whose polynomial does not use the coefficients it drew
EncSharesNoRandom(m, H, X, s, th, rnd, sd) ==
    LET n         == Len(X)
        priPoly   == [k \in 1..th |-> s]
        priShares == PriShares(m, priPoly, n)
        proofs    == [i \in 1..n |-> NewDLEQProof(m, H, X[i], priShares[i].V, Pick(m, sd, i))]
    IN  [encShares |-> [i \in 1..n |->
                          [S |-> [I |-> priShares[i].I, V |-> proofs[i].xH],
                           P |-> proofs[i].proof]],
         pubPoly   |-> Commit(m, priPoly, H),
         err       |-> "nil"]

\* EncShares whose commitments are taken with respect to G, not to H
EncSharesCommitG(m, H, X, s, th, rnd, sd) ==
    LET n         == Len(X)
        priPoly   == NewPriPoly(s, rnd)
        priShares == PriShares(m, priPoly, n)
        proofs    == [i \in 1..n |-> NewDLEQProof(m, H, X[i], priShares[i].V, Pick(m, sd, i))]
    IN  [encShares |-> [i \in 1..n |->
                          [S |-> [I |-> priShares[i].I, V |-> proofs[i].xH],
                           P |-> proofs[i].proof]],
         pubPoly   |-> Commit(m, priPoly, PointBase),
         err       |-> "nil"]

\* EncShares with the coefficients rnd and the proof seed sd drawn from random.Stream
EncShares(m, H, X, s, th, rnd, sd) ==
    LET n         == Len(X)
        priPoly   == NewPriPoly(s, rnd)
        priShares == PriShares(m, priPoly, n)
        proofs    == [i \in 1..n |-> NewDLEQProof(m, H, X[i], priShares[i].V, Pick(m, sd, i))]
    IN  [encShares |-> [i \in 1..n |->
                          [S |-> [I |-> priShares[i].I, V |-> proofs[i].xH],
                           P |-> proofs[i].proof]],
         pubPoly   |-> Commit(m, priPoly, H),
         err       |-> "nil"]

\* VerifyEncShare with the test of the proof inverted
VerifyEncShareInverted(m, H, X, poly, encShare) ==
    LET sH == PubEval(m, poly, encShare.S.I)
    IN  IF DLEQVerify(m, encShare.P, H, X, sH.V, encShare.S.V)
        THEN "errorEncVerification"
        ELSE "nil"

VerifyEncShare(m, H, X, poly, encShare) ==
    LET sH == PubEval(m, poly, encShare.S.I)
    IN  IF ~DLEQVerify(m, encShare.P, H, X, sH.V, encShare.S.V)
        THEN "errorEncVerification"
        ELSE "nil"

RECURSIVE VerifyEncLoop(_, _, _, _, _, _, _, _)
VerifyEncLoop(m, H, X, polys, encShares, i, K, EE) ==
    IF i > Len(X) THEN [K |-> K, E |-> EE, err |-> "nil", checks |-> i - 1]
    ELSE IF VerifyEncShare(m, H, X[i], polys[i], encShares[i]) = "nil"
         THEN VerifyEncLoop(m, H, X, polys, encShares, i + 1,
                            Append(K, X[i]), Append(EE, encShares[i]))
         ELSE VerifyEncLoop(m, H, X, polys, encShares, i + 1, K, EE)

\* a loop that stops at the first share that fails
RECURSIVE VerifyEncLoopStop(_, _, _, _, _, _, _, _)
VerifyEncLoopStop(m, H, X, polys, encShares, i, K, EE) ==
    IF i > Len(X) THEN [K |-> K, E |-> EE, err |-> "nil", checks |-> i - 1]
    ELSE IF VerifyEncShare(m, H, X[i], polys[i], encShares[i]) = "nil"
         THEN VerifyEncLoopStop(m, H, X, polys, encShares, i + 1,
                                Append(K, X[i]), Append(EE, encShares[i]))
         ELSE [K |-> K, E |-> EE, err |-> "nil", checks |-> i]

\* VerifyEncShareBatch that stops at the first share that fails
VerifyEncShareBatchStop(m, H, X, polys, encShares) ==
    IF Len(X) # Len(polys) \/ Len(polys) # Len(encShares)
    THEN [K |-> <<>>, E |-> <<>>, err |-> "errorDifferentLengths", checks |-> 0]
    ELSE VerifyEncLoopStop(m, H, X, polys, encShares, 1, <<>>, <<>>)

VerifyEncShareBatch(m, H, X, polys, encShares) ==
    IF Len(X) # Len(polys) \/ Len(polys) # Len(encShares)
    THEN [K |-> <<>>, E |-> <<>>, err |-> "errorDifferentLengths", checks |-> 0]
    ELSE VerifyEncLoop(m, H, X, polys, encShares, 1, <<>>, <<>>)

\* DecShare that multiplies by x where the code multiplies by the inverse of x
DecShareNoInv(m, H, X, poly, x, encShare, v) ==
    LET err == VerifyEncShare(m, H, X, poly, encShare)
        V   == PointMul(m, encShare.S.V, x)
        P   == NewDLEQProof(m, PointBase, V, x, v).proof
    IN  IF err # "nil"
        THEN [share |-> NilShare, err |-> err, decrypted |-> FALSE]
        ELSE [share |-> [S |-> [I |-> encShare.S.I, V |-> V], P |-> P], err |-> "nil",
              decrypted |-> TRUE]

\* DecShare whose proof is made on the encrypted value, not on the decrypted one
DecShareProofOfEnc(m, H, X, poly, x, encShare, v) ==
    LET err == VerifyEncShare(m, H, X, poly, encShare)
        V   == PointMul(m, encShare.S.V, ScalarInv(m, x))
        P   == NewDLEQProof(m, PointBase, encShare.S.V, x, v).proof
    IN  IF err # "nil"
        THEN [share |-> NilShare, err |-> err, decrypted |-> FALSE]
        ELSE [share |-> [S |-> [I |-> encShare.S.I, V |-> V], P |-> P], err |-> "nil",
              decrypted |-> TRUE]

\* DecShare that decrypts before it looks at the result of VerifyEncShare
DecShareUnverified(m, H, X, poly, x, encShare, v) ==
    LET err == VerifyEncShare(m, H, X, poly, encShare)
        V   == PointMul(m, encShare.S.V, ScalarInv(m, x))
        P   == NewDLEQProof(m, PointBase, V, x, v).proof
    IN  IF err # "nil"
        THEN [share |-> NilShare, err |-> err, decrypted |-> TRUE]
        ELSE [share |-> [S |-> [I |-> encShare.S.I, V |-> V], P |-> P], err |-> "nil",
              decrypted |-> TRUE]

\* DecShare with the proof commitment randomness v; decrypted tells whether the
\* call went past the verification of the encrypted share
DecShare(m, H, X, poly, x, encShare, v) ==
    LET err == VerifyEncShare(m, H, X, poly, encShare)
        V   == PointMul(m, encShare.S.V, ScalarInv(m, x))
        P   == NewDLEQProof(m, PointBase, V, x, v).proof
    IN  IF err # "nil"
        THEN [share |-> NilShare, err |-> err, decrypted |-> FALSE]
        ELSE [share |-> [S |-> [I |-> encShare.S.I, V |-> V], P |-> P], err |-> "nil",
              decrypted |-> TRUE]

RECURSIVE DecLoop(_, _, _, _, _, _, _, _, _, _, _)
DecLoop(m, H, X, polys, x, encShares, sd, i, K, EE, DD) ==
    IF i > Len(encShares)
    THEN [K |-> K, E |-> EE, D |-> DD, err |-> "nil", checks |-> i - 1]
    ELSE LET ds == DecShare(m, H, X[i], polys[i], x, encShares[i], Pick(m, sd, i))
         IN  IF ds.err = "nil"
             THEN DecLoop(m, H, X, polys, x, encShares, sd, i + 1,
                          Append(K, X[i]), Append(EE, encShares[i]), Append(DD, ds.share))
             ELSE DecLoop(m, H, X, polys, x, encShares, sd, i + 1, K, EE, DD)

\* a loop that keeps the public key of a share it drops
RECURSIVE DecLoopKeepKey(_, _, _, _, _, _, _, _, _, _, _)
DecLoopKeepKey(m, H, X, polys, x, encShares, sd, i, K, EE, DD) ==
    IF i > Len(encShares)
    THEN [K |-> K, E |-> EE, D |-> DD, err |-> "nil", checks |-> i - 1]
    ELSE LET ds == DecShare(m, H, X[i], polys[i], x, encShares[i], Pick(m, sd, i))
         IN  IF ds.err = "nil"
             THEN DecLoopKeepKey(m, H, X, polys, x, encShares, sd, i + 1,
                                 Append(K, X[i]), Append(EE, encShares[i]),
                                 Append(DD, ds.share))
             ELSE DecLoopKeepKey(m, H, X, polys, x, encShares, sd, i + 1,
                                 Append(K, X[i]), EE, DD)

\* DecShareBatch that drops a share that fails from E and D and not from K
DecShareBatchKeepKey(m, H, X, polys, x, encShares, sd) ==
    IF Len(X) # Len(polys) \/ Len(polys) # Len(encShares)
    THEN [K |-> <<>>, E |-> <<>>, D |-> <<>>, err |-> "errorDifferentLengths", checks |-> 0]
    ELSE DecLoopKeepKey(m, H, X, polys, x, encShares, sd, 1, <<>>, <<>>, <<>>)

DecShareBatch(m, H, X, polys, x, encShares, sd) ==
    IF Len(X) # Len(polys) \/ Len(polys) # Len(encShares)
    THEN [K |-> <<>>, E |-> <<>>, D |-> <<>>, err |-> "errorDifferentLengths", checks |-> 0]
    ELSE DecLoop(m, H, X, polys, x, encShares, sd, 1, <<>>, <<>>, <<>>)

\* VerifyDecShare that checks the share against its encryption only, not against X
VerifyDecShareNoKey(m, G, X, encShare, decShare) ==
    IF decShare.P.VH # PointAdd(m, PointMul(m, decShare.S.V, decShare.P.R),
                                   PointMul(m, encShare.S.V, decShare.P.C))
    THEN "errorDecVerification"
    ELSE "nil"

VerifyDecShare(m, G, X, encShare, decShare) ==
    IF ~DLEQVerify(m, decShare.P, G, decShare.S.V, X, encShare.S.V)
    THEN "errorDecVerification"
    ELSE "nil"

RECURSIVE VerifyDecLoop(_, _, _, _, _, _, _)
VerifyDecLoop(m, G, X, encShares, decShares, i, DD) ==
    IF i > Len(X) THEN [D |-> DD, err |-> "nil", checks |-> i - 1]
    ELSE IF VerifyDecShare(m, G, X[i], encShares[i], decShares[i]) = "nil"
         THEN VerifyDecLoop(m, G, X, encShares, decShares, i + 1, Append(DD, decShares[i]))
         ELSE VerifyDecLoop(m, G, X, encShares, decShares, i + 1, DD)

\* VerifyDecShareBatch that reports a share that fails as an error of the call
VerifyDecShareBatchFail(m, G, X, encShares, decShares) ==
    LET r == VerifyDecLoop(m, G, X, encShares, decShares, 1, <<>>)
    IN  IF Len(X) # Len(encShares) \/ Len(encShares) # Len(decShares)
        THEN [D |-> <<>>, err |-> "errorDifferentLengths", checks |-> 0]
        ELSE IF Len(r.D) < Len(X)
        THEN [D |-> <<>>, err |-> "errorDecVerification", checks |-> r.checks]
        ELSE r

VerifyDecShareBatch(m, G, X, encShares, decShares) ==
    IF Len(X) # Len(encShares) \/ Len(encShares) # Len(decShares)
    THEN [D |-> <<>>, err |-> "errorDifferentLengths", checks |-> 0]
    ELSE VerifyDecLoop(m, G, X, encShares, decShares, 1, <<>>)

\* RecoverSecret that counts the shares before it verifies them
RecoverSecretCountFirst(m, G, X, encShares, decShares, th, n) ==
    LET DD     == VerifyDecShareBatch(m, G, X, encShares, decShares)
        shares == [j \in 1..Len(DD.D) |-> DD.D[j].S]
        rc     == RecoverCommit(m, shares, th, n)
    IN  IF Len(decShares) < th
        THEN [point |-> NoPoint, err |-> "errorTooFewShares", checks |-> 0,
              interpolated |-> FALSE]
        ELSE IF DD.err # "nil"
        THEN [point |-> NoPoint, err |-> DD.err, checks |-> DD.checks, interpolated |-> FALSE]
        ELSE IF Len(DD.D) < th
        THEN [point |-> NoPoint, err |-> "errorTooFewShares", checks |-> DD.checks,
              interpolated |-> FALSE]
        ELSE [point |-> rc.point, err |-> rc.err, checks |-> DD.checks, interpolated |-> TRUE]

\* RecoverSecret that compares the number of shares it is given with th
RecoverSecretCountGiven(m, G, X, encShares, decShares, th, n) ==
    LET DD     == VerifyDecShareBatch(m, G, X, encShares, decShares)
        shares == [j \in 1..Len(DD.D) |-> DD.D[j].S]
        rc     == RecoverCommit(m, shares, th, n)
    IN  IF DD.err # "nil"
        THEN [point |-> NoPoint, err |-> DD.err, checks |-> DD.checks, interpolated |-> FALSE]
        ELSE IF Len(decShares) < th
        THEN [point |-> NoPoint, err |-> "errorTooFewShares", checks |-> DD.checks,
              interpolated |-> FALSE]
        ELSE [point |-> rc.point, err |-> rc.err, checks |-> DD.checks, interpolated |-> TRUE]

\* RecoverSecret that asks for more than th surviving shares
RecoverSecretStrict(m, G, X, encShares, decShares, th, n) ==
    LET DD     == VerifyDecShareBatch(m, G, X, encShares, decShares)
        shares == [j \in 1..Len(DD.D) |-> DD.D[j].S]
        rc     == RecoverCommit(m, shares, th, n)
    IN  IF DD.err # "nil"
        THEN [point |-> NoPoint, err |-> DD.err, checks |-> DD.checks, interpolated |-> FALSE]
        ELSE IF Len(DD.D) <= th
        THEN [point |-> NoPoint, err |-> "errorTooFewShares", checks |-> DD.checks,
              interpolated |-> FALSE]
        ELSE [point |-> rc.point, err |-> rc.err, checks |-> DD.checks, interpolated |-> TRUE]

\* RecoverSecret that lets th - 1 surviving shares through
RecoverSecretLax(m, G, X, encShares, decShares, th, n) ==
    LET DD     == VerifyDecShareBatch(m, G, X, encShares, decShares)
        shares == [j \in 1..Len(DD.D) |-> DD.D[j].S]
        rc     == RecoverCommit(m, shares, th, n)
    IN  IF DD.err # "nil"
        THEN [point |-> NoPoint, err |-> DD.err, checks |-> DD.checks, interpolated |-> FALSE]
        ELSE IF Len(DD.D) < th - 1
        THEN [point |-> NoPoint, err |-> "errorTooFewShares", checks |-> DD.checks,
              interpolated |-> FALSE]
        ELSE [point |-> rc.point, err |-> rc.err, checks |-> DD.checks, interpolated |-> TRUE]

RecoverSecret(m, G, X, encShares, decShares, th, n) ==
    LET DD     == VerifyDecShareBatch(m, G, X, encShares, decShares)
        shares == [j \in 1..Len(DD.D) |-> DD.D[j].S]
        rc     == RecoverCommit(m, shares, th, n)
    IN  IF DD.err # "nil"
        THEN [point |-> NoPoint, err |-> DD.err, checks |-> DD.checks, interpolated |-> FALSE]
        ELSE IF Len(DD.D) < th
        THEN [point |-> NoPoint, err |-> "errorTooFewShares", checks |-> DD.checks,
              interpolated |-> FALSE]
        ELSE [point |-> rc.point, err |-> rc.err, checks |-> DD.checks, interpolated |-> TRUE]

----------------------------------------------------------------------------
(* A protocol run: the dealer issues the shares, a share may be changed in *)
(* transit, every recipient decrypts its share (one of them possibly with  *)
(* a key that is not its own), then anyone verifies and recovers.          *)

n == Len(xs)

\* the public keys X_i = x_i*G
X == [i \in 1..n |-> PointMul(q, PointBase, xs[i])]

H == BaseH(q)

SeqsOver(S, len) == UNION {[1..k -> S] : k \in 0..len}

\* the entries handed to a batch call, as positions of recipients
Sels(S) == SeqsOver(S, MaxSel)

NoRet == [op |-> "none", sel |-> <<>>, lens |-> <<0, 0, 0>>, x |-> 0, th |-> 0,
          K |-> <<>>, E |-> <<>>, D |-> <<>>, point |-> NoPoint, err |-> "nil",
          checks |-> 0, decrypted |-> FALSE, interpolated |-> FALSE]

\* a Secret or Point that holds no value yet (nil interface)
NoRecv == [kind |-> "none", suite |-> <<>>, value |-> <<>>]

NoCall == [op |-> "none", data |-> <<>>, before |-> NoRecv, err |-> "nil", size |-> 0,
           out |-> <<>>]

NoPrev == [drawn |-> <<>>, pubPoly |-> <<>>, issued |-> <<>>, point |-> NoPoint,
           err |-> "none"]

\* the polynomial of every entry of a batch is the one of this issuance
Polys(k) == [j \in 1..k |-> pubPoly]

Pos(f, sel) == [j \in 1..Len(sel) |-> f[sel[j]]]

Init ==
    /\ q \in Orders
    /\ xs \in UNION {[1..k -> 1..Min(MaxKey, q - 1)] : k \in 1..Min(MaxN, q - 1)}
    /\ t \in 1..Len(xs)
    /\ secret \in Scalars(q)
    /\ seed = 0
    /\ turn = 0
    /\ pubPoly = <<>>
    /\ issued = <<>>
    /\ E = <<>>
    /\ D = <<>>
    /\ tampered = {}
    /\ cheat = {}
    /\ drawn = <<>>
    /\ prev = NoPrev
    /\ ret = NoRet
    /\ recv = NoRecv
    /\ call = NoCall

\* everything but the record of the last call
state == <<q, xs, t, secret, seed, turn, pubPoly, issued, E, D, tampered, cheat, drawn, prev,
           recv, call>>

\* a run is a sequence of protocol steps that ends with one query
Running == ret.op \in {"none", "EncShares", "DecShare"}

\* the dealer calls EncShares
Issue ==
    /\ turn = 0
    /\ \E rnd \in [1..(t - 1) -> 0..Min(MaxCoef, q - 1)] :
         LET r == EncShares(q, H, X, secret, t, rnd, seed)
         IN  /\ pubPoly' = r.pubPoly
             /\ issued' = r.encShares
             /\ E' = r.encShares
             /\ drawn' = rnd
             /\ ret' = [NoRet EXCEPT !.op = "EncShares", !.th = t, !.E = r.encShares,
                                     !.err = r.err]
    /\ turn' = 1
    /\ UNCHANGED <<q, xs, t, secret, seed, D, tampered, cheat, prev, recv, call>>

\* the value of one encrypted share is changed, its proof is left as issued
Tamper(i, w) ==
    /\ turn = 1
    /\ Running
    /\ tampered = {}
    /\ w # E[i].S.V
    /\ E' = [E EXCEPT ![i].S.V = w]
    /\ tampered' = {i}
    /\ UNCHANGED <<q, xs, t, secret, seed, turn, pubPoly, issued, D, cheat, drawn, prev, ret,
                   recv, call>>

\* recipient i = turn calls DecShare with the private key x
DecShareCall(x) ==
    /\ turn \in 1..n
    /\ Running
    /\ x # xs[turn] => (cheat = {} /\ tampered = {})
    /\ LET r == DecShare(q, H, X[turn], pubPoly, x, E[turn], Pick(q, seed, n + turn))
       IN  /\ D' = IF r.err = "nil" THEN (turn :> r.share) @@ D ELSE D
           /\ ret' = [NoRet EXCEPT !.op = "DecShare", !.sel = <<turn>>, !.x = x,
                                   !.D = IF r.err = "nil" THEN <<r.share>> ELSE <<>>,
                                   !.err = r.err, !.decrypted = r.decrypted]
    /\ cheat' = IF x # xs[turn] THEN {turn} ELSE cheat
    /\ turn' = turn + 1
    /\ UNCHANGED <<q, xs, t, secret, seed, pubPoly, issued, E, tampered, drawn, prev, recv,
                   call>>

\* recipient i publishes its decrypted share, value and proof as DecShare
\* returned them, under the index k of another share
Relabel(i, k) ==
    /\ turn = n + 1
    /\ Running
    /\ i \in DOMAIN D
    /\ \A j \in DOMAIN D : D[j].S.I = E[j].S.I
    /\ k # D[i].S.I
    /\ D' = [D EXCEPT ![i].S.I = k]
    /\ UNCHANGED <<q, xs, t, secret, seed, turn, pubPoly, issued, E, tampered, cheat, drawn,
                   prev, ret, recv, call>>

\* the encrypted shares are published
Dealt == turn = 1 /\ Running

\* every recipient has answered
Ready == turn = n + 1 /\ Running

VerifyEncShareCall(i) ==
    /\ Dealt
    /\ ret' = [NoRet EXCEPT !.op = "VerifyEncShare", !.sel = <<i>>,
                            !.err = VerifyEncShare(q, H, X[i], pubPoly, E[i])]
    /\ UNCHANGED state

VerifyEncShareBatchCall(sel) ==
    /\ Dealt
    /\ \E r \in {VerifyEncShareBatch(q, H, Pos(X, sel), Polys(Len(sel)), Pos(E, sel))} :
           ret' = [NoRet EXCEPT !.op = "VerifyEncShareBatch", !.sel = sel,
                                !.lens = <<Len(sel), Len(sel), Len(sel)>>,
                                !.K = r.K, !.E = r.E, !.err = r.err, !.checks = r.checks]
    /\ UNCHANGED state

DecShareBatchCall(x, sel) ==
    /\ Dealt
    /\ \E r \in {DecShareBatch(q, H, Pos(X, sel), Polys(Len(sel)), x, Pos(E, sel), seed)} :
           ret' = [NoRet EXCEPT !.op = "DecShareBatch", !.sel = sel, !.x = x,
                                !.lens = <<Len(sel), Len(sel), Len(sel)>>,
                                !.K = r.K, !.E = r.E, !.D = r.D, !.err = r.err,
                                !.checks = r.checks]
    /\ UNCHANGED state

VerifyDecShareCall(i) ==
    /\ Ready
    /\ i \in DOMAIN D
    /\ ret' = [NoRet EXCEPT !.op = "VerifyDecShare", !.sel = <<i>>,
                            !.err = VerifyDecShare(q, PointBase, X[i], E[i], D[i])]
    /\ UNCHANGED state

VerifyDecShareBatchCall(sel) ==
    /\ Ready
    /\ \E r \in {VerifyDecShareBatch(q, PointBase, Pos(X, sel), Pos(E, sel), Pos(D, sel))} :
           ret' = [NoRet EXCEPT !.op = "VerifyDecShareBatch", !.sel = sel,
                                !.lens = <<Len(sel), Len(sel), Len(sel)>>,
                                !.D = r.D, !.err = r.err, !.checks = r.checks]
    /\ UNCHANGED state

\* RecoverSecret that accumulates the interpolation in the first decrypted share
RecoverSecretCallInPlace(sel) ==
    /\ Ready
    /\ \E r \in {RecoverSecret(q, PointBase, Pos(X, sel), Pos(E, sel), Pos(D, sel), t, n)} :
           /\ ret' = [NoRet EXCEPT !.op = "RecoverSecret", !.sel = sel, !.th = t,
                                   !.lens = <<Len(sel), Len(sel), Len(sel)>>,
                                   !.point = r.point, !.err = r.err, !.checks = r.checks,
                                   !.interpolated = r.interpolated]
           /\ D' = IF r.interpolated THEN [D EXCEPT ![sel[1]].S.V = r.point] ELSE D
    /\ UNCHANGED <<q, xs, t, secret, seed, turn, pubPoly, issued, E, tampered, cheat, drawn,
                   prev, recv, call>>

RecoverSecretCall(sel) ==
    /\ Ready
    /\ \E r \in {RecoverSecret(q, PointBase, Pos(X, sel), Pos(E, sel), Pos(D, sel), t, n)} :
           ret' = [NoRet EXCEPT !.op = "RecoverSecret", !.sel = sel, !.th = t,
                                !.lens = <<Len(sel), Len(sel), Len(sel)>>,
                                !.point = r.point, !.err = r.err, !.checks = r.checks,
                                !.interpolated = r.interpolated]
    /\ UNCHANGED state

\* the same sequences cut to the lengths a, b, c
Cut(f, len) == [j \in 1..len |-> f[((j - 1) % n) + 1]]

\* a batch call whose three sequences have the lengths lens, not all equal
DifferentLengthsCall(op, lens, th) ==
    /\ Ready
    /\ DOMAIN D = 1..n
    /\ ~(lens[1] = lens[2] /\ lens[2] = lens[3])
    /\ op = "RecoverSecret" \/ th = 0
    /\ \E r \in {CASE op = "VerifyEncShareBatch" ->
                       VerifyEncShareBatch(q, H, Cut(X, lens[1]), Polys(lens[2]),
                                           Cut(E, lens[3]))
                   [] op = "DecShareBatch" ->
                       DecShareBatch(q, H, Cut(X, lens[1]), Polys(lens[2]), xs[1],
                                     Cut(E, lens[3]), seed)
                   [] op = "VerifyDecShareBatch" ->
                       VerifyDecShareBatch(q, PointBase, Cut(X, lens[1]), Cut(E, lens[2]),
                                           Cut(D, lens[3]))
                   [] op = "RecoverSecret" ->
                       RecoverSecret(q, PointBase, Cut(X, lens[1]), Cut(E, lens[2]),
                                     Cut(D, lens[3]), th, n)} :
         ret' = [NoRet EXCEPT !.op = op, !.lens = lens, !.th = th,
                   !.x = IF op = "DecShareBatch" THEN xs[1] ELSE 0,
                   !.K = IF op \in {"VerifyEncShareBatch", "DecShareBatch"} THEN r.K ELSE <<>>,
                   !.E = IF op \in {"VerifyEncShareBatch", "DecShareBatch"} THEN r.E ELSE <<>>,
                   !.D = IF op \in {"DecShareBatch", "VerifyDecShareBatch"} THEN r.D ELSE <<>>,
                   !.point = IF op = "RecoverSecret" THEN r.point ELSE NoPoint,
                   !.interpolated = IF op = "RecoverSecret" THEN r.interpolated ELSE FALSE,
                   !.err = r.err, !.checks = r.checks]
    /\ UNCHANGED state

\* recipient turn decrypts with its own key
HonestDecShareCall == turn \in 1..n /\ DecShareCall(xs[turn])

\* recovery from the shares of all recipients, in order
RecoverAllCall == RecoverSecretCall([j \in 1..n |-> j])

\* the dealer shares the same secret again, with fresh randomness
Reissue ==
    /\ turn = n + 1
    /\ ret.op = "RecoverSecret"
    /\ prev = NoPrev
    /\ \E rnd \in [1..(t - 1) -> 0..Min(MaxCoef, q - 1)] :
         LET r == EncShares(q, H, X, secret, t, rnd, (seed + 1) % q)
         IN  /\ rnd # drawn \/ t = 1
             /\ pubPoly' = r.pubPoly
             /\ issued' = r.encShares
             /\ E' = r.encShares
             /\ drawn' = rnd
             /\ ret' = [NoRet EXCEPT !.op = "EncShares", !.th = t, !.E = r.encShares,
                                     !.err = r.err]
    /\ prev' = [drawn |-> drawn, pubPoly |-> pubPoly, issued |-> issued,
                point |-> ret.point, err |-> ret.err]
    /\ seed' = (seed + 1) % q
    /\ turn' = 1
    /\ D' = <<>>
    /\ UNCHANGED <<q, xs, t, secret, tampered, cheat, recv, call>>

BatchOps == {"VerifyEncShareBatch", "DecShareBatch", "VerifyDecShareBatch", "RecoverSecret"}

Lens == {l \in [1..3 -> 0..MaxSel] : ~(l[1] = l[2] /\ l[2] = l[3])}

\* recovery: issuance, decryption by every recipient, RecoverSecret
Next ==
    \/ Issue
    \/ Running /\ \E x \in 1..(q - 1) : DecShareCall(x)
    \/ Ready /\ \E sel \in Sels(DOMAIN D) : RecoverSecretCall(sel)

Spec == Init /\ [][Next]_vars

\* verification of the encrypted shares
NextEnc ==
    \/ Issue
    \/ Dealt /\ \E i \in 1..n, w \in Scalars(q) : Tamper(i, w)
    \/ Dealt /\ \E i \in 1..n : VerifyEncShareCall(i)
    \/ Dealt /\ \E sel \in Sels(1..n) : VerifyEncShareBatchCall(sel)

SpecEnc == Init /\ [][NextEnc]_vars

\* verification of the decrypted shares
NextDec ==
    \/ Issue
    \/ Running /\ \E x \in 1..(q - 1) : DecShareCall(x)
    \/ Ready /\ \E i \in 1..n : VerifyDecShareCall(i)
    \/ Ready /\ \E sel \in Sels(DOMAIN D) : VerifyDecShareBatchCall(sel)

SpecDec == Init /\ [][NextDec]_vars

\* the three batch operations on shares that may fail verification
NextBatch ==
    \/ Issue
    \/ Dealt /\ \E i \in 1..n : Tamper(i, PointAdd(q, E[i].S.V, PointBase))
    \/ Running /\ \E x \in 1..(q - 1) : DecShareCall(x)
    \/ Dealt /\ \E sel \in Sels(1..n) : VerifyEncShareBatchCall(sel)
    \/ Dealt /\ \E sel \in Sels(1..n) : DecShareBatchCall(xs[1], sel)
    \/ Ready /\ \E sel \in Sels(DOMAIN D) : VerifyDecShareBatchCall(sel)

SpecBatch == Init /\ [][NextBatch]_vars

\* batch calls on sequences of different lengths
NextLen ==
    \/ Issue
    \/ HonestDecShareCall
    \/ Ready /\ \E op \in BatchOps, lens \in Lens, th \in 0..(n + 1) :
          DifferentLengthsCall(op, lens, th)

SpecLen == Init /\ [][NextLen]_vars

\* two issuances of the same secret
NextTwo ==
    \/ Issue
    \/ HonestDecShareCall
    \/ RecoverAllCall
    \/ Reissue

SpecTwo == Init /\ [][NextTwo]_vars

\* every operation, on shares that verify and on shares that do not
NextPure ==
    \/ Issue
    \/ Dealt /\ \E i \in 1..n : Tamper(i, PointAdd(q, E[i].S.V, PointBase))
    \/ HonestDecShareCall
    \/ Running /\ turn \in 1..n /\ DecShareCall((xs[turn] % (q - 1)) + 1)
    \/ Dealt /\ \E i \in 1..n : VerifyEncShareCall(i)
    \/ Dealt /\ \E sel \in Sels(1..n) : VerifyEncShareBatchCall(sel)
    \/ Dealt /\ \E sel \in Sels(1..n) : DecShareBatchCall(xs[1], sel)
    \/ Ready /\ \E i \in 1..n : VerifyDecShareCall(i)
    \/ Ready /\ \E sel \in Sels(DOMAIN D) : VerifyDecShareBatchCall(sel)
    \/ Ready /\ \E sel \in Sels(DOMAIN D) : RecoverSecretCall(sel)

SpecPure == Init /\ [][NextPure]_vars

\* decrypted shares published under an index that is not their own
NextIndex ==
    \/ Issue
    \/ HonestDecShareCall
    \/ Ready /\ \E i \in 1..n, k \in 1..Min(n + 1, q - 1) : Relabel(i, k)
    \/ Ready /\ \E i \in 1..n : VerifyDecShareCall(i)
    \/ Ready /\ \E sel \in Sels(DOMAIN D) : VerifyDecShareBatchCall(sel)
    \/ Ready /\ \E sel \in Sels(DOMAIN D) : RecoverSecretCall(sel)

SpecIndex == Init /\ [][NextIndex]_vars

----------------------------------------------------------------------------
(* abstract: marshalling of a Secret or Point with the name of its suite   *)
(* (abstract/marshal.go).  A byte is a one-character string, data is a     *)
(* sequence of bytes.                                                      *)

\* the bytes UnmarshalBinary is given in this model; no digit 0, so that no
\* number has a base prefix
Bytes == {"a", "b", "1", "-", " ", "\n"}

\* the byte make([]byte, k) fills a slice with
ZeroByte == "0"

DecimalDigits == <<"0", "1", "2", "3", "4", "5", "6", "7", "8", "9">>

IsDigit(c) == \E k \in 1..10 : DecimalDigits[k] = c

DigitVal(c) == (CHOOSE k \in 1..10 : DecimalDigits[k] = c) - 1

\* what Fprintln writes for an int
RECURSIVE Decimal(_)
Decimal(k) ==
    IF k < 10 THEN <<DecimalDigits[k + 1]>>
    ELSE Decimal(k \div 10) \o <<DecimalDigits[(k % 10) + 1]>>

\* the value of a sequence of digits
RECURSIVE Number(_)
Number(ds) ==
    IF ds = <<>> THEN 0
    ELSE 10 * Number(SubSeq(ds, 1, Len(ds) - 1)) + DigitVal(ds[Len(ds)])

\* the name of the registered suite whose String() has k characters
SuiteName(k) == [j \in 1..k |-> "a"]

\* the names StringToSuite knows
RegisteredNames == {SuiteName(k) : k \in 1..MaxName}

\* Group.SecretLen and Group.PointLen of the suite of that name
SecretLen(name) == Len(name)

PointLen(name) == Len(name) + 1

InnerSize(kind, name) == IF kind = "Secret" THEN SecretLen(name) ELSE PointLen(name)

\* the bytes MarshalSize adds for the suite to the size of the value
SuiteBytes == 8

\* Secret.MarshalSize and Point.MarshalSize; a nil interface has no method to call
MarshalSize(r) ==
    IF r.suite = <<>> THEN [size |-> 0, err |-> "panic"]
    ELSE [size |-> InnerSize(r.kind, r.suite) + SuiteBytes, err |-> "nil"]

\* Secret.MarshalBinary and Point.MarshalBinary: Fprintln(suite, len(bvalue)),
\* then the value
MarshalBinary(r) ==
    IF r.suite = <<>> THEN [data |-> <<>>, err |-> "panic"]
    ELSE [data |-> r.suite \o <<" ">> \o Decimal(Len(r.value)) \o <<"\n">> \o r.value,
          err  |-> "nil"]

\* the first position from i on that holds no space
RECURSIVE SkipSpace(_, _)
SkipSpace(data, i) ==
    IF i <= Len(data) /\ data[i] = " " THEN SkipSpace(data, i + 1) ELSE i

\* the first position from i on that holds a space or a newline
RECURSIVE TokenEnd(_, _)
TokenEnd(data, i) ==
    IF i <= Len(data) /\ data[i] \notin {" ", "\n"} THEN TokenEnd(data, i + 1) ELSE i

\* the first position from i on that holds no digit
RECURSIVE DigitsEnd(_, _)
DigitsEnd(data, i) ==
    IF i <= Len(data) /\ IsDigit(data[i]) THEN DigitsEnd(data, i + 1) ELSE i

\* the end of the scan: only spaces may stand between the number and the
\* newline or the end of the data
ScanEnd(data, tok, val, m) ==
    IF m > Len(data)
    THEN [suiteStr |-> tok, length |-> val, next |-> m, err |-> "nil"]
    ELSE IF data[m] = "\n"
    THEN [suiteStr |-> tok, length |-> val, next |-> m + 1, err |-> "nil"]
    ELSE [suiteStr |-> tok, length |-> val, next |-> m + 1, err |-> "expected newline"]

\* the digits of the int, from k to d - 1
ScanDigits(data, tok, neg, k, d) ==
    IF d = k
    THEN [suiteStr |-> tok, length |-> 0, next |-> k, err |-> "expected integer"]
    ELSE ScanEnd(data, tok,
                 IF neg THEN 0 - Number(SubSeq(data, k, d - 1))
                 ELSE Number(SubSeq(data, k, d - 1)),
                 SkipSpace(data, d))

\* the int, with its sign, from j on
ScanInt(data, tok, j) ==
    IF j > Len(data)
    THEN [suiteStr |-> tok, length |-> 0, next |-> j, err |-> "unexpected EOF"]
    ELSE IF data[j] = "\n"
    THEN [suiteStr |-> tok, length |-> 0, next |-> j + 1, err |-> "unexpected newline"]
    ELSE IF data[j] \in {"+", "-"}
    THEN ScanDigits(data, tok, data[j] = "-", j + 1, DigitsEnd(data, j + 1))
    ELSE ScanDigits(data, tok, FALSE, j, DigitsEnd(data, j))

\* the string, from i to e - 1
ScanString(data, i, e) ==
    IF i > Len(data)
    THEN [suiteStr |-> <<>>, length |-> 0, next |-> i, err |-> "unexpected EOF"]
    ELSE IF data[i] = "\n"
    THEN [suiteStr |-> <<>>, length |-> 0, next |-> i + 1, err |-> "unexpected newline"]
    ELSE ScanInt(data, SubSeq(data, i, e - 1), SkipSpace(data, e))

\* fmt.Fscanln(b, &suiteStr, &length): the two values as they are when the scan
\* ends, and next, the first byte the scan has not read
Fscanln(data) == ScanString(data, SkipSpace(data, 1), TokenEnd(data, SkipSpace(data, 1)))

\* bvalue := make([]byte, length); b.Read(bvalue)
ReadValue(data, next, length) ==
    [j \in 1..length |-> IF next + j - 1 <= Len(data) THEN data[next + j - 1] ELSE ZeroByte]

\* the value a new Secret or Point of the suite holds
ZeroValue(kind, name) == [j \in 1..InnerSize(kind, name) |-> ZeroByte]

\* UnmarshalBinary of the value itself into a new Secret or Point of the suite;
\* its error is dropped by the callers
InnerUnmarshal(kind, name, bvalue) ==
    IF Len(bvalue) = InnerSize(kind, name) THEN bvalue ELSE ZeroValue(kind, name)

\* UnmarshalBinary after the scan p of the header and with the value read
Unmarshalled(r, p, value) ==
    IF p.length < 0 THEN {[recv |-> r, err |-> "panic"]}
    ELSE IF p.suiteStr \notin RegisteredNames
    THEN {[recv |-> r, err |-> "errorUnknownSuite"]}
    ELSE IF r.kind = "Secret" \/ r.suite = <<>>
    THEN {[recv |-> [r EXCEPT !.suite = p.suiteStr, !.value = value], err |-> "nil"]}
    ELSE IF r.suite = p.suiteStr
    THEN {[recv |-> [r EXCEPT !.value = value], err |-> "nil"]}
    ELSE {[recv |-> r, err |-> "panic"], [recv |-> [r EXCEPT !.value = value], err |-> "nil"]}

\* the value UnmarshalBinary reads after the scan p
ScannedValue(r, data, p) ==
    IF p.length < 0 \/ p.suiteStr \notin RegisteredNames THEN <<>>
    ELSE InnerUnmarshal(r.kind, p.suiteStr, ReadValue(data, p.next, p.length))

\* Secret.UnmarshalBinary and Point.UnmarshalBinary: the receivers and errors
\* the call can end with.  make panics on a negative length.  A Point that
\* holds a value already keeps its suite and is set by Null and Add; what Add
\* does with a point of another suite is up to the suites.
UnmarshalBinary(r, data) ==
    IF Len(data) = 0 THEN {[recv |-> r, err |-> "nil"]}
    ELSE UNION {Unmarshalled(r, p, ScannedValue(r, data, p)) : p \in {Fscanln(data)}}

\* the receivers: a Secret or Point with no value yet, or one of a registered
\* suite whose value is the same byte throughout
Receivers ==
    {[kind |-> kd, suite |-> <<>>, value |-> <<>>] : kd \in {"Secret", "Point"}}
    \cup {[kind |-> kd, suite |-> nm, value |-> [j \in 1..InnerSize(kd, nm) |-> b]] :
            kd \in {"Secret", "Point"}, nm \in RegisteredNames, b \in {"a", "1"}}

InitMarshal ==
    /\ q = 3
    /\ xs = <<1>>
    /\ t = 1
    /\ secret = 0
    /\ seed = 0
    /\ turn = 0
    /\ pubPoly = <<>>
    /\ issued = <<>>
    /\ E = <<>>
    /\ D = <<>>
    /\ tampered = {}
    /\ cheat = {}
    /\ drawn = <<>>
    /\ prev = NoPrev
    /\ ret = NoRet
    /\ recv \in Receivers
    /\ call = NoCall

pvss == <<q, xs, t, secret, seed, turn, pubPoly, issued, E, D, tampered, cheat, drawn, prev,
          ret>>

MarshalSizeCall ==
    /\ call.op = "none"
    /\ \E r \in {MarshalSize(recv)} :
           call' = [NoCall EXCEPT !.op = "MarshalSize", !.before = recv, !.size = r.size,
                                  !.err = r.err]
    /\ UNCHANGED <<pvss, recv>>

MarshalBinaryCall ==
    /\ call.op = "none"
    /\ \E r \in {MarshalBinary(recv)} :
           call' = [NoCall EXCEPT !.op = "MarshalBinary", !.before = recv, !.out = r.data,
                                  !.err = r.err]
    /\ UNCHANGED <<pvss, recv>>

UnmarshalBinaryCall(data) ==
    /\ call.op = "none"
    /\ \E r \in UnmarshalBinary(recv, data) :
           /\ recv' = r.recv
           /\ call' = [NoCall EXCEPT !.op = "UnmarshalBinary", !.data = data,
                                     !.before = recv, !.err = r.err]
    /\ UNCHANGED pvss

\* one call of a marshal method on a receiver
NextMarshal ==
    \/ MarshalSizeCall
    \/ MarshalBinaryCall
    \/ call.op = "none" /\ \E data \in SeqsOver(Bytes, MaxData) : UnmarshalBinaryCall(data)

SpecMarshal == InitMarshal /\ [][NextMarshal]_vars

----------------------------------------------------------------------------
(* Properties *)

All == [j \in 1..n |-> j]

Injective(sel) == \A j, k \in 1..Len(sel) : j # k => sel[j] # sel[k]

Range(f) == {f[j] : j \in DOMAIN f}

\* every entry of sel was decrypted by its recipient with its own key
Honest(sel) == Range(sel) \cap cheat = {}

SecretG == PointMul(q, PointBase, secret)

\* C1: after EncShares and a DecShare by every recipient with its own key,
\* RecoverSecret on all n triples returns secret*G and no error.
C1_RoundTrip ==
    (ret.op = "RecoverSecret" /\ cheat = {} /\ ret.sel = All)
        => (ret.err = "nil" /\ ret.point = SecretG)

C1_Witness ==
    /\ ret.op = "RecoverSecret" /\ cheat = {} /\ ret.sel = All
    /\ n = 2 /\ t = 2 /\ secret = 3 /\ ret.point = 3 /\ drawn # <<0>>

\* C2: RecoverSecret on any t of the n honestly decrypted shares, in any order,
\* succeeds and returns the point that RecoverSecret returns on all n.
C2_ThresholdSufficient ==
    (ret.op = "RecoverSecret" /\ cheat = {} /\ Len(ret.sel) = t /\ Injective(ret.sel))
        => /\ ret.err = "nil"
           /\ ret.point = RecoverSecret(q, PointBase, X, E, D, t, n).point

C2_Witness ==
    /\ ret.op = "RecoverSecret" /\ cheat = {} /\ ret.sel = <<2, 1>>
    /\ t = 2 /\ n = 2 /\ ret.err = "nil" /\ ret.point # PointNull /\ drawn # <<0>>

\* C3: RecoverSecret on exactly t-1 valid decrypted shares, or on no share,
\* returns errorTooFewShares and no point.
C3_ThresholdInsufficient ==
    (ret.op = "RecoverSecret" /\ Honest(ret.sel) /\ Len(ret.sel) \in {t - 1, 0})
        => (ret.err = "errorTooFewShares" /\ ret.point = NoPoint)

C3_Witness ==
    /\ ret.op = "RecoverSecret" /\ Honest(ret.sel) /\ Len(ret.sel) = t - 1
    /\ t = 2 /\ ret.err = "errorTooFewShares"

\* the entries of sel whose encrypted share passes VerifyEncShare, in order
EncValid(i) == VerifyEncShare(q, H, X[i], pubPoly, E[i]) = "nil"

EncKept(sel) == SelectSeq(sel, EncValid)

\* the entries of sel whose encrypted share is as issued, in order
Untampered(i) == i \notin tampered

AsIssued(sel) == SelectSeq(sel, Untampered)

\* C4: when the value of one encrypted share is changed and its proof is left
\* as issued, VerifyEncShare fails on that share and VerifyEncShareBatch drops
\* it, while every other share passes VerifyEncShare and is kept by the batch.
C4_TamperEnc ==
    tampered # {} =>
        /\ ret.op = "VerifyEncShare" =>
              ret.err = (IF ret.sel[1] \in tampered THEN "errorEncVerification" ELSE "nil")
        /\ ret.op = "VerifyEncShareBatch" =>
              /\ ret.E = Pos(E, AsIssued(ret.sel))
              /\ ret.K = Pos(X, AsIssued(ret.sel))

C4_Witness ==
    /\ tampered = {2} /\ n = 2
    /\ ret.op = "VerifyEncShareBatch" /\ ret.sel = <<1, 2>>
    /\ ret.E = <<E[1]>> /\ E[2].S.V = PointNull /\ issued[2].S.V # PointNull

\* C5: a share decrypted by DecShare with a private key other than x fails
\* VerifyDecShare against the public key X = x*G.
C5_WrongKey ==
    (ret.op = "VerifyDecShare" /\ ret.sel[1] \in cheat) => ret.err = "errorDecVerification"

C5_Witness ==
    /\ ret.op = "VerifyDecShare" /\ ret.sel[1] \in cheat
    /\ ret.err = "errorDecVerification" /\ D[ret.sel[1]].S.V # PointNull

\* C6: on inputs of equal length VerifyEncShareBatch returns exactly the pairs
\* (X[i], encShares[i]) on which VerifyEncShare succeeds, in the order of the
\* input.
C6_BatchFilter ==
    ret.op = "VerifyEncShareBatch" =>
        /\ ret.K = Pos(X, EncKept(ret.sel))
        /\ ret.E = Pos(E, EncKept(ret.sel))

C6_Witness ==
    /\ ret.op = "VerifyEncShareBatch" /\ tampered = {}
    /\ ret.sel = <<2, 1>> /\ ret.E = <<E[2], E[1]>> /\ ret.K = <<X[2], X[1]>>
    /\ X[2] # X[1]

AllEqual(lens) == lens[1] = lens[2] /\ lens[2] = lens[3]

\* C7: when the three sequences of VerifyEncShareBatch, VerifyDecShareBatch,
\* DecShareBatch or RecoverSecret are not of one length, the call returns
\* errorDifferentLengths and no value and verifies or decrypts no item;
\* RecoverSecret does so whatever the threshold.
C7_DifferentLengths ==
    (ret.op \in BatchOps /\ ~AllEqual(ret.lens)) =>
        /\ ret.err = "errorDifferentLengths"
        /\ ret.K = <<>> /\ ret.E = <<>> /\ ret.D = <<>> /\ ret.point = NoPoint
        /\ ret.checks = 0

C7_Witness ==
    /\ ret.op = "RecoverSecret" /\ ret.lens = <<2, 2, 1>> /\ ret.th = 2
    /\ ret.err = "errorDifferentLengths"

DecValid(i) == VerifyDecShare(q, PointBase, X[i], E[i], D[i]) = "nil"

\* C8: on inputs of equal length VerifyEncShareBatch, VerifyDecShareBatch and
\* DecShareBatch return no error however many entries fail; when every entry
\* fails the outputs are empty.
C8_BatchNeverFails ==
    /\ (ret.op \in {"VerifyEncShareBatch", "DecShareBatch"} /\ AllEqual(ret.lens)) =>
          /\ ret.err = "nil"
          /\ EncKept(ret.sel) = <<>> => (ret.K = <<>> /\ ret.E = <<>> /\ ret.D = <<>>)
    /\ (ret.op = "VerifyDecShareBatch" /\ AllEqual(ret.lens)) =>
          /\ ret.err = "nil"
          /\ SelectSeq(ret.sel, DecValid) = <<>> => ret.D = <<>>

C8_Witness ==
    /\ ret.op = "VerifyDecShareBatch" /\ Len(ret.sel) = 2
    /\ Range(ret.sel) \subseteq cheat
    /\ ret.err = "nil" /\ ret.D = <<>>

\* some share of the two issuances has a different value
SharesDiffer == \E i \in 1..n : issued[i].S.V # prev.issued[i].S.V

BothRecover ==
    ret.op = "RecoverSecret" =>
        /\ ret.err = "nil" /\ prev.err = "nil"
        /\ ret.point = SecretG /\ prev.point = SecretG

\* C9 as stated: for every 1 <= t <= n two EncShares calls on the same secret
\* and keys with independent randomness give different polynomials and
\* different shares, and both issuances recover to secret*G.
C9_AsStated ==
    prev # NoPrev => (pubPoly # prev.pubPoly /\ SharesDiffer /\ BothRecover)

\* C9, amended: for every 2 <= t <= n two EncShares calls on the same secret
\* and keys that draw different coefficients give different polynomials and at
\* least one different share; for every 1 <= t <= n both issuances recover to
\* secret*G.
C9_Independence ==
    prev # NoPrev =>
        /\ t >= 2 => (pubPoly # prev.pubPoly /\ SharesDiffer)
        /\ BothRecover

C9_Witness ==
    /\ prev # NoPrev /\ t = 2 /\ n = 2
    /\ pubPoly # prev.pubPoly /\ SharesDiffer
    /\ ret.op = "RecoverSecret" /\ ret.point = SecretG /\ prev.point = SecretG
    /\ secret = 2

\* the shares of sel that survive VerifyDecShareBatch
Survive(sel) == VerifyDecShareBatch(q, PointBase, Pos(X, sel), Pos(E, sel), Pos(D, sel)).D

RecoverOf(sel) == RecoverSecret(q, PointBase, Pos(X, sel), Pos(E, sel), Pos(D, sel), t, n)

\* C10: for one issuance, two RecoverSecret calls whose inputs each hold at
\* least t shares that survive verification return the same point, whatever
\* the order of the triples and whatever further triples are supplied.
C10_OrderAndSuperset ==
    (ret.op = "RecoverSecret" /\ Len(Survive(ret.sel)) >= t) =>
        \A sel \in Sels(DOMAIN D) :
            Len(Survive(sel)) >= t =>
                (RecoverOf(sel).point = ret.point /\ RecoverOf(sel).err = ret.err)

\* the private share v_i of recipient i in this issuance
PriValue(i) == PriEval(q, NewPriPoly(secret, drawn), i).V

\* C11: every encrypted share returned by a successful EncShares passes
\* VerifyEncShare against X[i] and the returned commitment polynomial: its
\* value is v_i*X[i] and the commitment evaluated at its index is v_i*H.
C11_IssuanceComplete ==
    (ret.op = "EncShares" /\ ret.err = "nil") =>
        /\ Len(ret.E) = n
        /\ \A i \in 1..n :
              /\ VerifyEncShare(q, H, X[i], pubPoly, ret.E[i]) = "nil"
              /\ ret.E[i].S.I = i
              /\ ret.E[i].S.V = PointMul(q, X[i], PriValue(i))
              /\ PubEval(q, pubPoly, ret.E[i].S.I).V = PointMul(q, H, PriValue(i))

C11_Witness ==
    /\ ret.op = "EncShares" /\ ret.err = "nil" /\ n = 2 /\ t = 2
    /\ drawn = <<1>> /\ X[1] # X[2]
    /\ \A i \in 1..n : ret.E[i].S.V # PointNull
    /\ \A i \in 1..n : VerifyEncShare(q, H, X[i], pubPoly, ret.E[i]) = "nil"

\* C12: DecShare returns a decrypted share only if VerifyEncShare succeeds on
\* the same (H, X, poly, encShare); when it fails DecShare returns
\* errorEncVerification and no share, and returns before the decryption and
\* the generation of the proof.
C12_NoUnverifiedDecryption ==
    ret.op = "DecShare" =>
        /\ (ret.err = "nil" \/ ret.D # <<>> \/ ret.decrypted) => EncValid(ret.sel[1])
        /\ ~EncValid(ret.sel[1]) =>
              /\ ret.err = "errorEncVerification"
              /\ ret.D = <<>>
              /\ ~ret.decrypted
              /\ ret.sel[1] \notin DOMAIN D

C12_Witness ==
    /\ ret.op = "DecShare" /\ ret.sel[1] \in tampered /\ ret.x = xs[ret.sel[1]]
    /\ ret.err = "errorEncVerification" /\ ret.D = <<>> /\ ~ret.decrypted

\* a call leaves its inputs as they were: the keys, the secret and the
\* threshold, the commitment polynomial and the encrypted shares once issued,
\* the decrypted shares once published
InputsKept ==
    ret' # ret =>
        /\ UNCHANGED <<q, xs, t, secret>>
        /\ ret'.op # "EncShares" => UNCHANGED <<pubPoly, issued, E>>
        /\ ret'.op \notin {"EncShares", "DecShare"} => UNCHANGED D
        /\ ret'.op = "DecShare" => \A i \in DOMAIN D : i \in DOMAIN D' /\ D'[i] = D[i]

\* the same call made again after the call returns what the call returned
SameAgain ==
    /\ ret.op = "VerifyEncShare" =>
          ret.err = VerifyEncShare(q, H, X[ret.sel[1]], pubPoly, E[ret.sel[1]])
    /\ ret.op = "VerifyEncShareBatch" =>
          \E r \in {VerifyEncShareBatch(q, H, Pos(X, ret.sel), Polys(Len(ret.sel)),
                                        Pos(E, ret.sel))} :
              ret.K = r.K /\ ret.E = r.E /\ ret.err = r.err
    /\ ret.op = "DecShareBatch" =>
          \E r \in {DecShareBatch(q, H, Pos(X, ret.sel), Polys(Len(ret.sel)), ret.x,
                                  Pos(E, ret.sel), seed)} :
              ret.K = r.K /\ ret.E = r.E /\ ret.D = r.D /\ ret.err = r.err
    /\ ret.op = "VerifyDecShare" =>
          ret.err = VerifyDecShare(q, PointBase, X[ret.sel[1]], E[ret.sel[1]], D[ret.sel[1]])
    /\ ret.op = "VerifyDecShareBatch" =>
          \E r \in {VerifyDecShareBatch(q, PointBase, Pos(X, ret.sel), Pos(E, ret.sel),
                                        Pos(D, ret.sel))} :
              ret.D = r.D /\ ret.err = r.err
    /\ ret.op = "RecoverSecret" =>
          \E r \in {RecoverOf(ret.sel)} : ret.point = r.point /\ ret.err = r.err

C14_OnlyVerifiedCount ==
    (ret.op = "RecoverSecret" /\ Len(ret.sel) >= t
        /\ Len(SelectSeq(ret.sel, DecValid)) < t)
        => /\ ret.err = "errorTooFewShares"
           /\ ret.point = NoPoint
           /\ ret.checks = Len(ret.sel)
           /\ ~ret.interpolated

C14_Witness ==
    /\ ret.op = "RecoverSecret" /\ t = 2 /\ Len(ret.sel) = 2 /\ Injective(ret.sel)
    /\ cheat # {} /\ Len(SelectSeq(ret.sel, DecValid)) = 1
    /\ ret.err = "errorTooFewShares" /\ ~ret.interpolated

\* the entries of sel whose decrypted share passes VerifyDecShare, in order
DecKept(sel) == SelectSeq(sel, DecValid)

\* C15: every decrypted share that passes VerifyDecShare, and so survives
\* VerifyDecShareBatch and is handed to the interpolation by RecoverSecret,
\* carries the index of the encrypted share it was checked against.
C15_IndexJoin ==
    /\ (ret.op = "VerifyDecShare" /\ ret.err = "nil") =>
          D[ret.sel[1]].S.I = E[ret.sel[1]].S.I
    /\ ret.op = "VerifyDecShareBatch" =>
          \A j \in 1..Len(ret.D) : ret.D[j].S.I = E[DecKept(ret.sel)[j]].S.I
    /\ (ret.op = "RecoverSecret" /\ ret.interpolated) =>
          \A i \in Range(DecKept(ret.sel)) : D[i].S.I = E[i].S.I

\* the strictly increasing maps from the positions of an output of length k to
\* the positions of an input of length len
Increasing(k, len) ==
    {p \in [1..k -> 1..len] : \A a, b \in 1..k : a < b => p[a] < p[b]}

\* C16: the output sequences of a batch operation have one length and their
\* j-th entries come from the same input position, (K, E) of
\* VerifyEncShareBatch and (K, E, D) of DecShareBatch, so an entry dropped from
\* one sequence is dropped from all; D[j] is the decryption of E[j] and has its
\* index.
C16_Aligned ==
    (ret.op \in {"VerifyEncShareBatch", "DecShareBatch"} /\ ret.err = "nil") =>
        /\ Len(ret.K) = Len(ret.E)
        /\ ret.op = "DecShareBatch" => Len(ret.D) = Len(ret.E)
        /\ ret.op = "VerifyEncShareBatch" => ret.D = <<>>
        /\ \E p \in Increasing(Len(ret.E), Len(ret.sel)) :
              /\ \A j \in 1..Len(ret.E) :
                    /\ ret.K[j] = X[ret.sel[p[j]]]
                    /\ ret.E[j] = E[ret.sel[p[j]]]
              /\ \A k \in 1..Len(ret.sel) :
                    (\E j \in 1..Len(ret.E) : p[j] = k) <=> EncValid(ret.sel[k])
        /\ \A j \in 1..Len(ret.D) :
              /\ ret.D[j].S.I = ret.E[j].S.I
              /\ ret.D[j].S.V = PointMul(q, ret.E[j].S.V, ScalarInv(q, ret.x))

C16_Witness ==
    /\ ret.op = "DecShareBatch" /\ tampered = {1} /\ ret.sel = <<1, 2>>
    /\ ret.K = <<X[2]>> /\ ret.E = <<E[2]>> /\ Len(ret.D) = 1
    /\ ret.D[1].S.I = 2 /\ X[1] # X[2]

\* C17: for an encrypted share (i, v_i*X) that verifies and a nonzero private
\* key x with X = x*G, DecShare returns a share with the index i and the value
\* x^-1 * (v_i*X) = v_i*G, and a proof that passes VerifyDecShare against X
\* and the encrypted share.
C17_Decryption ==
    (ret.op = "DecShare" /\ ret.x = xs[ret.sel[1]] /\ EncValid(ret.sel[1])) =>
        /\ ret.err = "nil"
        /\ Len(ret.D) = 1
        /\ ret.D[1].S.I = E[ret.sel[1]].S.I
        /\ ret.D[1].S.V = PointMul(q, E[ret.sel[1]].S.V, ScalarInv(q, ret.x))
        /\ ret.D[1].S.V = PointMul(q, PointBase, PriValue(ret.sel[1]))
        /\ VerifyDecShare(q, PointBase, X[ret.sel[1]], E[ret.sel[1]], ret.D[1]) = "nil"

C17_Witness ==
    /\ ret.op = "DecShare" /\ ret.sel = <<2>> /\ ret.x = xs[2] /\ ret.x = 2
    /\ ret.err = "nil" /\ ret.D[1].S.I = 2
    /\ ret.D[1].S.V # PointNull /\ ret.D[1].S.V # E[2].S.V
    /\ VerifyDecShare(q, PointBase, X[2], E[2], ret.D[1]) = "nil"

\* C18: whenever RecoverSecret passes its threshold test and hands shares to
\* the interpolation, the surviving shares hold at least t pairwise distinct
\* indices; the same valid triple supplied several times counts once.
C18_DistinctThreshold ==
    (ret.op = "RecoverSecret" /\ ret.interpolated) =>
        Cardinality({D[i].S.I : i \in Range(DecKept(ret.sel))}) >= t

\* C19: UnmarshalBinary of a Secret or a Point on non-empty data whose suite
\* tag is not a registered suite returns the error of StringToSuite and leaves
\* the value and the suite of the receiver as they were.
C19_UnknownGroup ==
    (call.op = "UnmarshalBinary" /\ Len(call.data) > 0
        /\ Fscanln(call.data).suiteStr \notin RegisteredNames)
        => (call.err = "errorUnknownSuite" /\ recv = call.before)

\* C20: for every Secret and Point of every suite MarshalSize equals the number
\* of bytes MarshalBinary produces.
C20_SizeMatches ==
    (call.op = "MarshalBinary" /\ call.err = "nil")
        => MarshalSize(recv).size = Len(call.out)

====
